---- MODULE Spec2Model ----
(***************************************************************************)
(* Model of airflow-etl/dags/etl_two_tables.py: the DAG etl_movies_ratings *)
(* (two parallel ingests, merge, validate, analyze, two parallel cleanups) *)
(* run by the scheduler with the default trigger rule (all upstream tasks  *)
(* succeeded) and default_args retries = 1.                                *)
(*                                                                         *)
(* Conventions.  A table of the store is a bag of rows (a relation has no  *)
(* row order).  A csv file is a header (cols) and a sequence of rows.  A   *)
(* title is a sequence of one-character strings, so that str.strip() is    *)
(* computed.  A rating is an integer number of rating units; avg_rating is *)
(* kept in hundredths, as round(avg(rating)::numeric, 2) produces it.      *)
(* The status the scheduler gives a task whose upstream failed is written  *)
(* "skipped" here.                                                         *)
(***************************************************************************)
EXTENDS Integers, Sequences, FiniteSets, Bags, TLC

VARIABLES
    run,          \* number of the current DAG run (1, 2, ...)
    runState,     \* "running", "success" or "failed"
    status,       \* task id -> state of its task instance in this run
    tries,        \* task id -> attempts started in this run
    movies_csv,   \* DATA_DIR/movies.csv
    ratings_csv,  \* DATA_DIR/ratings.csv
    stg_movies,   \* table stg_movies
    stg_ratings,  \* table stg_ratings
    fact,         \* table fact_movie_ratings
    avg_csv,      \* OUTPUT_DIR/avg_ratings.csv
    top10_png,    \* OUTPUT_DIR/avg_ratings_top10.png was written in this run
    tmp_dir,      \* /opt/airflow/tmp
    data_dir,     \* the files of DATA_DIR, each a pair <<stem, suffix>>
    last_cause,   \* how the latest attempt of simple_analysis in this run ended
    faulted,      \* task id -> its latest attempt was ended by a store or file
                  \* system error
    loaded_in,    \* staging table -> the run whose loader wrote its rows
    prev          \* the store and artifact as the previous run left them

vars == <<run, runState, status, tries, movies_csv, ratings_csv, stg_movies,
          stg_ratings, fact, avg_csv, top10_png, tmp_dir, data_dir,
          last_cause, faulted, loaded_in, prev>>

dataVars == <<movies_csv, ratings_csv, stg_movies, stg_ratings, fact,
              avg_csv, top10_png, tmp_dir, data_dir>>

-----------------------------------------------------------------------------
(* Bounds *)

MaxRuns == 2

-----------------------------------------------------------------------------
(* The task graph *)

Tasks == {"ingest_movies", "ingest_ratings", "merge_and_load_final",
          "validate_rowcount", "perform_analysis", "cleanup_stage_db",
          "cleanup_files"}

\* the members of TaskGroup ingest_transform_parallel
tg == {"ingest_movies", "ingest_ratings"}

\* a variant graph in which merge waits for ingest_movies only
UpstreamMovieOnly(t) ==
    CASE t = "merge_and_load_final" -> {"ingest_movies"}
      [] t = "validate_rowcount"    -> {"merge_and_load_final"}
      [] t = "perform_analysis"     -> {"validate_rowcount"}
      [] t = "cleanup_stage_db"     -> {"perform_analysis"}
      [] t = "cleanup_files"        -> {"perform_analysis"}
      [] OTHER                      -> {}

\* a variant graph in which cleanup_stage_db waits for the merge only
UpstreamDropEarly(t) ==
    CASE t = "merge_and_load_final" -> tg
      [] t = "validate_rowcount"    -> {"merge_and_load_final"}
      [] t = "perform_analysis"     -> {"validate_rowcount"}
      [] t = "cleanup_stage_db"     -> {"merge_and_load_final"}
      [] t = "cleanup_files"        -> {"perform_analysis"}
      [] OTHER                      -> {}

\* a variant graph in which the merge waits for ingest_ratings only
UpstreamRatingsOnly(t) ==
    CASE t = "merge_and_load_final" -> {"ingest_ratings"}
      [] t = "validate_rowcount"    -> {"merge_and_load_final"}
      [] t = "perform_analysis"     -> {"validate_rowcount"}
      [] t = "cleanup_stage_db"     -> {"perform_analysis"}
      [] t = "cleanup_files"        -> {"perform_analysis"}
      [] OTHER                      -> {}

\* a variant graph in which cleanup_files waits for the validation only
UpstreamCleanupEarly(t) ==
    CASE t = "merge_and_load_final" -> tg
      [] t = "validate_rowcount"    -> {"merge_and_load_final"}
      [] t = "perform_analysis"     -> {"validate_rowcount"}
      [] t = "cleanup_stage_db"     -> {"perform_analysis"}
      [] t = "cleanup_files"        -> {"validate_rowcount"}
      [] OTHER                      -> {}

\* tg >> merge >> validate >> analyze >> [cleanup_db, cleanup_files_task]
Upstream(t) ==
    CASE t = "merge_and_load_final" -> tg
      [] t = "validate_rowcount"    -> {"merge_and_load_final"}
      [] t = "perform_analysis"     -> {"validate_rowcount"}
      [] t = "cleanup_stage_db"     -> {"perform_analysis"}
      [] t = "cleanup_files"        -> {"perform_analysis"}
      [] OTHER                      -> {}

Downstream(t) == {d \in Tasks : t \in Upstream(d)}

Leaves == {t \in Tasks : Downstream(t) = {}}

\* default_args["retries"]
Retries == 1

Terminal == {"succeeded", "failed", "skipped"}

-----------------------------------------------------------------------------
(* Tables, files and the inputs *)

NoTable == [exists |-> FALSE, rows |-> EmptyBag]

Table(b) == [exists |-> TRUE, rows |-> b]

NoFile == [state |-> "absent", rows |-> <<>>]

Range(s) == {s[i] : i \in DOMAIN s}

\* the bag of the elements of a sequence
SeqToBag(s) ==
    [x \in Range(s) |-> Cardinality({i \in DOMAIN s : s[i] = x})]

MovieCols == {"movie_id", "title", "year"}

RatingCols == {"movie_id", "rating"}

MRow(id, title, year) == [movie_id |-> id, title |-> title, year |-> year]

RRow(id, rating) == [movie_id |-> id, rating |-> rating]

\* movies.csv files: one movie with a padded title; two movies; one lacking
\* the column year; two movies whose ids match no rating of RatingsOneMovie
MoviesOne ==
    [cols |-> MovieCols, rows |-> << MRow(1, <<" ", "A", " ">>, 2000) >>]

MoviesTwo ==
    [cols |-> MovieCols,
     rows |-> << MRow(1, <<"A">>, 2000), MRow(2, <<"B", " ">>, 2001) >>]

MoviesNoYear ==
    [cols |-> {"movie_id", "title"},
     rows |-> << [movie_id |-> 1, title |-> <<"A">>] >>]

MoviesOther ==
    [cols |-> MovieCols,
     rows |-> << MRow(2, <<"B">>, 2001), MRow(3, <<"A">>, 1999) >>]

\* ratings.csv files: two ratings of movie 1; three ratings each of movies 1
\* and 2, of the same mean 4.33...; one lacking the column rating
RatingsOneMovie ==
    [cols |-> RatingCols, rows |-> << RRow(1, 4), RRow(1, 2) >>]

RatingsTwoMovies ==
    [cols |-> RatingCols,
     rows |-> << RRow(1, 5), RRow(2, 4), RRow(1, 4), RRow(2, 5), RRow(1, 4),
                 RRow(2, 4) >>]

RatingsNoRating ==
    [cols |-> {"movie_id"}, rows |-> << [movie_id |-> 1] >>]

\* the pairs <<movies.csv, ratings.csv>> a deployment may hold in DATA_DIR
Inputs ==
    { <<MoviesOne, RatingsOneMovie>>,
      <<MoviesTwo, RatingsTwoMovies>>,
      <<MoviesOther, RatingsOneMovie>>,
      <<MoviesNoYear, RatingsOneMovie>>,
      <<MoviesOne, RatingsNoRating>> }

SourceFiles == {<<"movies", ".csv">>, <<"ratings", ".csv">>}

\* the file system a deployment starts from: a fresh one, or one with a used
\* scratch directory and a leftover temporary file
FileSystems ==
    { <<[exists |-> FALSE, files |-> {}], SourceFiles>>,
      <<[exists |-> TRUE, files |-> {"scratch.dat"}],
        SourceFiles \cup {<<"movies", ".tmp">>}>> }

-----------------------------------------------------------------------------
(* The task bodies as functions of what they read *)

IsSpace(c) == c = " "

\* str.strip(): drop the leading and the trailing whitespace
RECURSIVE LStrip(_)
LStrip(s) ==
    IF s # <<>> /\ IsSpace(Head(s)) THEN LStrip(Tail(s)) ELSE s

RECURSIVE RStrip(_)
RStrip(s) ==
    IF s # <<>> /\ IsSpace(s[Len(s)])
    THEN RStrip(SubSeq(s, 1, Len(s) - 1))
    ELSE s

Strip(s) == RStrip(LStrip(s))

\* df[c] raises KeyError when the file has no column c
HasColumns(csv, needed) == needed \subseteq csv.cols

\* ingest_movies: the frame written to stg_movies
MoviesFrame(csv) ==
    [i \in DOMAIN csv.rows |->
        MRow(csv.rows[i].movie_id, Strip(csv.rows[i].title), csv.rows[i].year)]

\* ingest_ratings: the frame written to stg_ratings
RatingsFrame(csv) ==
    [i \in DOMAIN csv.rows |->
        RRow(csv.rows[i].movie_id, csv.rows[i].rating)]

\* a write outside a transaction, cut short: the table is left with no row
HalfWritten(old) == Table(EmptyBag)

\* with engine.begin(): an error inside the block rolls the write back
RolledBack(old) == old

\* to_sql appending to the table it finds
AppendTable(old, b) == Table(old.rows (+) b)

\* to_sql(..., if_exists="replace"): the table holds exactly the frame's rows
WriteTable(old, b) == Table(b)

\* r["rating2"] = r["rating"] ** 2, then one joined row
JoinRowDoubles(r, m) ==
    [movie_id |-> r.movie_id, rating |-> r.rating,
     rating2 |-> 2 * r.rating, title |-> m.title, year |-> m.year]

JoinRow(r, m) ==
    [movie_id |-> r.movie_id, rating |-> r.rating,
     rating2 |-> r.rating * r.rating, title |-> m.title, year |-> m.year]

\* r.merge(m, on="movie_id", how="inner") on the bags m and r
Merged(m, r) ==
    LET pairs == {p \in (DOMAIN r) \X (DOMAIN m) :
                      p[1].movie_id = p[2].movie_id}
        rowsOf == {JoinRow(p[1], p[2]) : p \in pairs}
    IN  [x \in rowsOf |->
            r[RRow(x.movie_id, x.rating)]
              * m[MRow(x.movie_id, x.title, x.year)]]

\* select * from <table>: the rows of the table, in any order
RECURSIVE Orders(_)
Orders(b) ==
    IF DOMAIN b = {} THEN {<<>>}
    ELSE UNION { {<<x>> \o s : s \in Orders(b (-) SetToBag({x}))}
                 : x \in DOMAIN b }

\* the rows of frame m whose movie_id is id, in the order of m
RECURSIVE Matching(_, _)
Matching(m, id) ==
    IF m = <<>> THEN <<>>
    ELSE (IF Head(m).movie_id = id THEN <<Head(m)>> ELSE <<>>)
           \o Matching(Tail(m), id)

\* r.merge(m, on="movie_id", how="inner") on frames: for each row of r, in
\* the order of r, one row per row of m with the same movie_id
RECURSIVE MergeFrames(_, _)
MergeFrames(r, m) ==
    IF r = <<>> THEN <<>>
    ELSE LET ms == Matching(m, Head(r).movie_id)
         IN  [i \in 1..Len(ms) |-> JoinRow(Head(r), ms[i])]
               \o MergeFrames(Tail(r), m)

\* SELECT COUNT(*)
RowCount(b) == BagCardinality(b)

RECURSIVE SumRatings(_, _)
SumRatings(b, S) ==
    IF S = {} THEN 0
    ELSE LET x == CHOOSE y \in S : TRUE
         IN  x.rating * b[x] + SumRatings(b, S \ {x})

RECURSIVE SumCopies(_, _)
SumCopies(b, S) ==
    IF S = {} THEN 0
    ELSE LET x == CHOOSE y \in S : TRUE
         IN  b[x] + SumCopies(b, S \ {x})

\* round(x::numeric, 2) of x = total / n >= 0, in hundredths (ties round up)
Round2(total, n) == (200 * total + n) \div (2 * n)

\* select title, round(avg(rating)::numeric, 2), count(*) ... group by title
Aggregate(b) ==
    { LET S == {x \in DOMAIN b : x.title = t}
          n == SumCopies(b, S)
      IN  [title |-> t, avg_rating |-> Round2(SumRatings(b, S), n), n |-> n]
      : t \in {x.title : x \in DOMAIN b} }

\* order by avg_rating desc, n desc
OrderedBefore(g, h) ==
    \/ g.avg_rating > h.avg_rating
    \/ g.avg_rating = h.avg_rating /\ g.n >= h.n

\* the row orders the query may return: every order the order by allows
QueryResults(b) ==
    LET G == Aggregate(b)
        k == Cardinality(G)
    IN  {s \in [1..k -> G] :
            /\ \A i, j \in 1..k : i # j => s[i] # s[j]
            /\ \A i, j \in 1..k : i < j => OrderedBefore(s[i], s[j])}

\* what a df.to_csv that raised may have left of the file
PartialFiles(df) ==
    {[state |-> "partial", rows |-> SubSeq(df, 1, k)] : k \in 0..(Len(df) - 1)}

CsvFile(df) == [state |-> "complete", rows |-> df]

\* validate_rowcount_py: the query raises on a missing table, "if not cnt"
\* raises on zero; a variant that accepts an empty table
\* a gate that raises on a table with rows
ValidateInverted(f) == ~f.exists \/ RowCount(f.rows) > 0

ValidateAcceptsEmpty(f) == ~f.exists

ValidateRaises(f) == ~f.exists \/ RowCount(f.rows) = 0

AnalysisFaults == {"none", "store", "write", "plot"}

\* variants of simple_analysis: one that swallows the failed df.to_csv, one
\* without the inner try around the plot
AnalysisSwallowsWrite(fault) == fault = "store"

AnalysisPlotFatal(fault) == fault \in {"store", "write", "plot"}

\* simple_analysis: the outer except re-raises, the inner one swallows
AnalysisRaises(fault) == fault \in {"store", "write"}

\* "drop table" without "if exists": a missing table is an error
DropMissingRaises(tbl) == ~tbl.exists

\* drop table if exists: a missing table is not an error
DropRaises(tbl) == FALSE

\* a drop that leaves the table in place
KeepTable(tbl) == tbl

\* drop table if exists: the table is absent afterwards, was it there or not
DropIfExists(tbl) == NoTable

\* f.endswith(".tmp")
EndsWithTmp(f) == f[2] = ".tmp"

-----------------------------------------------------------------------------
(* The scheduler *)

\* a task that fails is failed at once
FailAtOnce(t) == "failed"

\* the state of a task instance whose attempt raised: up_for_retry while the
\* attempts started do not exceed retries
AfterFailure(t) == IF tries[t] <= Retries THEN "up_for_retry" ELSE "failed"

\* the end of an attempt of t
Finished(t, raised) ==
    /\ status' = [status EXCEPT
                     ![t] = IF raised THEN AfterFailure(t) ELSE "succeeded"]
    /\ UNCHANGED <<run, runState, tries, prev>>

\* a run state that counts a leaf that was not run as a success
RunStateFailedLeavesOnly ==
    IF \E t \in Leaves : status[t] = "failed" THEN "failed" ELSE "success"

\* the state of the run once every task instance has ended: failed when a
\* leaf is failed or was not run because of a failure upstream
RunStateOf ==
    IF \A t \in Leaves : status[t] = "succeeded" THEN "success" ELSE "failed"

Init ==
    /\ run = 1
    /\ runState = "running"
    /\ status = [t \in Tasks |-> "pending"]
    /\ tries = [t \in Tasks |-> 0]
    /\ \E in \in Inputs : movies_csv = in[1] /\ ratings_csv = in[2]
    /\ stg_movies = NoTable
    /\ stg_ratings = NoTable
    /\ fact = NoTable
    /\ avg_csv = NoFile
    /\ top10_png = "absent"
    /\ \E fs \in FileSystems : tmp_dir = fs[1] /\ data_dir = fs[2]
    /\ last_cause = "none"
    /\ faulted = [t \in Tasks |-> FALSE]
    /\ loaded_in = [stg_movies |-> 0, stg_ratings |-> 0]
    /\ prev = [state |-> "none", fact |-> NoTable, avg_csv |-> NoFile]

\* a scheduler that starts a task without waiting for its upstream tasks
StartEager(t) ==
    /\ runState = "running"
    /\ status[t] \in {"pending", "up_for_retry"}
    /\ status' = [status EXCEPT ![t] = "running"]
    /\ tries' = [tries EXCEPT ![t] = @ + 1]
    /\ UNCHANGED <<run, runState, prev, last_cause, faulted, loaded_in>>
    /\ UNCHANGED dataVars

\* a scheduler that starts again a task that has succeeded
StartAgain(t) ==
    /\ runState = "running"
    /\ status[t] \in {"pending", "up_for_retry", "succeeded"}
    /\ \A u \in Upstream(t) : status[u] = "succeeded"
    /\ status' = [status EXCEPT ![t] = "running"]
    /\ tries' = [tries EXCEPT ![t] = @ + 1]
    /\ UNCHANGED <<run, runState, prev, last_cause, faulted, loaded_in>>
    /\ UNCHANGED dataVars

\* the scheduler starts an attempt of t: all upstream succeeded
Start(t) ==
    /\ runState = "running"
    /\ status[t] \in {"pending", "up_for_retry"}
    /\ \A u \in Upstream(t) : status[u] = "succeeded"
    /\ status' = [status EXCEPT ![t] = "running"]
    /\ tries' = [tries EXCEPT ![t] = @ + 1]
    /\ UNCHANGED <<run, runState, prev, last_cause, faulted, loaded_in>>
    /\ UNCHANGED dataVars

\* t is not run: some upstream task failed or was itself not run
\* a scheduler that never marks the tasks below a failed task
SkipNever(t) ==
    /\ FALSE
    /\ UNCHANGED vars

Skip(t) ==
    /\ runState = "running"
    /\ status[t] = "pending"
    /\ \E u \in Upstream(t) : status[u] \in {"failed", "skipped"}
    /\ status' = [status EXCEPT ![t] = "skipped"]
    /\ UNCHANGED <<run, runState, tries, prev, last_cause, faulted,
                   loaded_in>>
    /\ UNCHANGED dataVars

FinishRun ==
    /\ runState = "running"
    /\ \A t \in Tasks : status[t] \in Terminal
    /\ runState' = RunStateOf
    /\ UNCHANGED <<run, status, tries, prev, last_cause, faulted,
                   loaded_in>>
    /\ UNCHANGED dataVars

\* the next scheduled run of the DAG, on the same DATA_DIR and store
NewRun ==
    /\ runState # "running"
    /\ run < MaxRuns
    /\ run' = run + 1
    /\ runState' = "running"
    /\ status' = [t \in Tasks |-> "pending"]
    /\ tries' = [t \in Tasks |-> 0]
    /\ last_cause' = "none"
    /\ faulted' = [t \in Tasks |-> FALSE]
    /\ UNCHANGED loaded_in
    /\ prev' = [state |-> runState, fact |-> fact, avg_csv |-> avg_csv]
    /\ UNCHANGED dataVars

-----------------------------------------------------------------------------
(* The task bodies.  fault: the store or the file system raises.           *)

ingest_movies ==
    /\ status["ingest_movies"] = "running"
    /\ \E fault \in BOOLEAN :
        LET raised == fault \/ ~HasColumns(movies_csv, MovieCols)
        IN  /\ stg_movies' =
                  IF ~HasColumns(movies_csv, MovieCols) THEN stg_movies
                  ELSE IF fault THEN RolledBack(stg_movies)
                  ELSE WriteTable(stg_movies, SeqToBag(MoviesFrame(movies_csv)))
            /\ loaded_in' = IF raised THEN loaded_in
                            ELSE [loaded_in EXCEPT !.stg_movies = run]
            /\ faulted' = [faulted EXCEPT !["ingest_movies"] =
                              fault /\ HasColumns(movies_csv, MovieCols)]
            /\ Finished("ingest_movies", raised)
    /\ UNCHANGED <<movies_csv, ratings_csv, stg_ratings, fact, avg_csv,
                   top10_png, tmp_dir, data_dir,
                   last_cause>>

ingest_ratings ==
    /\ status["ingest_ratings"] = "running"
    /\ \E fault \in BOOLEAN :
        LET raised == fault \/ ~HasColumns(ratings_csv, RatingCols)
        IN  /\ stg_ratings' =
                  IF ~HasColumns(ratings_csv, RatingCols) THEN stg_ratings
                  ELSE IF fault THEN RolledBack(stg_ratings)
                  ELSE WriteTable(stg_ratings,
                                  SeqToBag(RatingsFrame(ratings_csv)))
            /\ loaded_in' = IF raised THEN loaded_in
                            ELSE [loaded_in EXCEPT !.stg_ratings = run]
            /\ faulted' = [faulted EXCEPT !["ingest_ratings"] =
                              fault /\ HasColumns(ratings_csv, RatingCols)]
            /\ Finished("ingest_ratings", raised)
    /\ UNCHANGED <<movies_csv, ratings_csv, stg_movies, fact, avg_csv,
                   top10_png, tmp_dir, data_dir,
                   last_cause>>

merge_transform ==
    /\ status["merge_and_load_final"] = "running"
    /\ \E fault \in BOOLEAN :
        LET raised == fault \/ ~stg_movies.exists \/ ~stg_ratings.exists
        IN  /\ IF ~stg_movies.exists \/ ~stg_ratings.exists
               THEN fact' = fact
               ELSE IF fault
               THEN fact' = RolledBack(fact)
               ELSE \E r \in Orders(stg_ratings.rows) :
                    \E m \in Orders(stg_movies.rows) :
                        fact' = WriteTable(fact, SeqToBag(MergeFrames(r, m)))
            /\ faulted' = [faulted EXCEPT !["merge_and_load_final"] = fault]
            /\ Finished("merge_and_load_final", raised)
    /\ UNCHANGED <<movies_csv, ratings_csv, stg_movies, stg_ratings, avg_csv,
                   top10_png, tmp_dir, data_dir,
                   last_cause, loaded_in>>

validate_rowcount_py ==
    /\ status["validate_rowcount"] = "running"
    /\ \E fault \in BOOLEAN :
        /\ faulted' = [faulted EXCEPT !["validate_rowcount"] = fault]
        /\ Finished("validate_rowcount", fault \/ ValidateRaises(fact))
    /\ UNCHANGED dataVars
    /\ UNCHANGED <<last_cause, loaded_in>>

simple_analysis ==
    /\ status["perform_analysis"] = "running"
    /\ \E fault \in AnalysisFaults :
        IF fault = "store" \/ ~fact.exists
        THEN /\ Finished("perform_analysis", TRUE)
             /\ last_cause' = "store"
             /\ faulted' = [faulted EXCEPT !["perform_analysis"] =
                               fault = "store"]
             /\ UNCHANGED <<avg_csv, top10_png>>
        ELSE \E df \in QueryResults(fact.rows) :
            IF df = <<>>
            THEN /\ Finished("perform_analysis", TRUE)
                 /\ last_cause' = "empty"
                 /\ faulted' = [faulted EXCEPT !["perform_analysis"] = FALSE]
                 /\ UNCHANGED <<avg_csv, top10_png>>
            ELSE /\ avg_csv' \in IF fault = "write"
                                 THEN PartialFiles(df) \cup {avg_csv}
                                 ELSE {CsvFile(df)}
                 /\ top10_png' =
                       IF AnalysisRaises(fault) \/ fault = "plot"
                       THEN top10_png
                       ELSE "complete"
                 /\ last_cause' = fault
                 /\ faulted' = [faulted EXCEPT !["perform_analysis"] =
                                   fault = "write"]
                 /\ Finished("perform_analysis", AnalysisRaises(fault))
    /\ UNCHANGED <<movies_csv, ratings_csv, stg_movies, stg_ratings, fact,
                   tmp_dir, data_dir, loaded_in>>

cleanup_intermediate ==
    /\ status["cleanup_stage_db"] = "running"
    /\ \E fault \in BOOLEAN :
        LET raised == fault \/ DropRaises(stg_movies) \/ DropRaises(stg_ratings)
        IN  /\ stg_movies' = IF raised THEN RolledBack(stg_movies)
                             ELSE DropIfExists(stg_movies)
            /\ stg_ratings' = IF raised THEN RolledBack(stg_ratings)
                              ELSE DropIfExists(stg_ratings)
            /\ loaded_in' = IF raised THEN loaded_in
                            ELSE [stg_movies |-> 0, stg_ratings |-> 0]
            /\ faulted' = [faulted EXCEPT !["cleanup_stage_db"] = fault]
            /\ Finished("cleanup_stage_db", raised)
    /\ UNCHANGED <<movies_csv, ratings_csv, fact, avg_csv, top10_png,
                   tmp_dir, data_dir, last_cause>>

cleanup_files ==
    /\ status["cleanup_files"] = "running"
    /\ tmp_dir' = IF tmp_dir.exists
                  THEN [exists |-> TRUE, files |-> {}]
                  ELSE tmp_dir
    /\ \E fault \in BOOLEAN :
        LET tmps == {f \in data_dir : EndsWithTmp(f)}
        IN  /\ faulted' = [faulted EXCEPT !["cleanup_files"] = fault]
            /\ IF fault
               THEN /\ \E kept \in SUBSET tmps :
                         /\ kept # {} \/ tmps = {}
                         /\ data_dir' = (data_dir \ tmps) \cup kept
                    /\ Finished("cleanup_files", TRUE)
               ELSE /\ data_dir' = data_dir \ tmps
                    /\ Finished("cleanup_files", FALSE)
    /\ UNCHANGED <<movies_csv, ratings_csv, stg_movies, stg_ratings, fact,
                   avg_csv, top10_png, last_cause, loaded_in>>

Next ==
    \/ \E t \in Tasks : Start(t)
    \/ \E t \in Tasks : Skip(t)
    \/ ingest_movies
    \/ ingest_ratings
    \/ merge_transform
    \/ validate_rowcount_py
    \/ simple_analysis
    \/ cleanup_intermediate
    \/ cleanup_files
    \/ FinishRun
    \/ NewRun

Spec == Init /\ [][Next]_vars

\* the scheduler keeps dispatching: a step that can be taken is taken
SpecFair == Init /\ [][Next]_vars /\ WF_vars(Next)

\* a task callable run on its own, outside the order of the DAG (a cleared
\* task instance, `airflow tasks test`)
Invoke(t) ==
    /\ \A u \in Tasks : status[u] # "running"
    /\ status' = [u \in Tasks |-> IF u = t THEN "running" ELSE "pending"]
    /\ tries' = [u \in Tasks |-> IF u = t THEN 1 ELSE 0]
    /\ last_cause' = "none"
    /\ faulted' = [u \in Tasks |-> FALSE]
    /\ UNCHANGED <<run, runState, prev, loaded_in>>
    /\ UNCHANGED dataVars

NextCalls ==
    \/ \E t \in Tasks : Invoke(t)
    \/ ingest_movies
    \/ ingest_ratings
    \/ merge_transform
    \/ validate_rowcount_py
    \/ simple_analysis
    \/ cleanup_intermediate
    \/ cleanup_files

SpecCalls == Init /\ [][NextCalls]_vars


-----------------------------------------------------------------------------
(* Properties *)

RunEnded == runState # "running"

\* has t been started in this run
HasRun(t) == tries[t] > 0

\* C1: a task is running or has run only if every one of its upstream tasks
\* has ended succeeded: merge after both ingests, validate after merge,
\* analysis after validate, both cleanups after analysis.
C1_RunsOnlyAfterUpstreamSucceeded ==
    /\ \A t \in Tasks :
          HasRun(t) <=> status[t] \in {"running", "up_for_retry",
                                       "succeeded", "failed"}
    /\ HasRun("merge_and_load_final") =>
          /\ status["ingest_movies"] = "succeeded"
          /\ status["ingest_ratings"] = "succeeded"
    /\ HasRun("validate_rowcount") =>
          status["merge_and_load_final"] = "succeeded"
    /\ HasRun("perform_analysis") => status["validate_rowcount"] = "succeeded"
    /\ HasRun("cleanup_stage_db") => status["perform_analysis"] = "succeeded"
    /\ HasRun("cleanup_files") => status["perform_analysis"] = "succeeded"

C1_Witness ==
    /\ status["cleanup_stage_db"] = "running"
    /\ status["cleanup_files"] = "running"
    /\ \A t \in Tasks \ {"cleanup_stage_db", "cleanup_files"} :
          status[t] = "succeeded"

\* the tasks that depend, directly or not, on t
C2_Below(t) ==
    CASE t \in {"ingest_movies", "ingest_ratings"} ->
            {"merge_and_load_final", "validate_rowcount", "perform_analysis",
             "cleanup_stage_db", "cleanup_files"}
      [] t = "merge_and_load_final" ->
            {"validate_rowcount", "perform_analysis", "cleanup_stage_db",
             "cleanup_files"}
      [] t = "validate_rowcount" ->
            {"perform_analysis", "cleanup_stage_db", "cleanup_files"}
      [] t = "perform_analysis" -> {"cleanup_stage_db", "cleanup_files"}
      [] OTHER -> {}

\* C2: a failed task's transitive downstream tasks never run and end skipped,
\* and the run ends failed; so when one ingest succeeds and the other fails,
\* merge, validate, analysis and both cleanups end skipped, never executed.
C2_FailureSkipsDownstream ==
    /\ \A t \in Tasks : status[t] = "failed" =>
          /\ \A d \in C2_Below(t) :
                ~HasRun(d) /\ status[d] \in {"pending", "skipped"}
          /\ RunEnded =>
                /\ \A d \in C2_Below(t) : status[d] = "skipped"
                /\ runState = "failed"
    /\ ( /\ RunEnded
         /\ {status["ingest_movies"], status["ingest_ratings"]}
               = {"succeeded", "failed"} )
       => /\ \A d \in Tasks \ {"ingest_movies", "ingest_ratings"} :
                status[d] = "skipped" /\ ~HasRun(d)
          /\ runState = "failed"

C2_Witness ==
    /\ runState = "failed"
    /\ status["ingest_movies"] = "succeeded"
    /\ status["ingest_ratings"] = "failed"
    /\ HasColumns(ratings_csv, RatingCols)

\* C3: with retries = 1 a task has at most 2 attempts per run; an attempt
\* that fails leaves the task up_for_retry after the first attempt and failed
\* only after the second; a task whose retry succeeds ends succeeded and its
\* downstream task runs.
C3_RetryBudget ==
    /\ \A t \in Tasks :
          /\ tries[t] \in 0..2
          /\ status[t] = "up_for_retry" => tries[t] = 1
          /\ status[t] = "failed" => tries[t] = 2
    /\ \A t \in Tasks \ {"ingest_movies", "ingest_ratings"} :
          (RunEnded /\ \A u \in Tasks : status[u] # "failed")
             => HasRun(t)

C3_Witness ==
    /\ runState = "success"
    /\ tries["merge_and_load_final"] = 2
    /\ status["merge_and_load_final"] = "succeeded"
    /\ HasRun("validate_rowcount")

\* C4 as stated: when a run has ended every task was executed exactly once.
C4_Original == RunEnded => \A t \in Tasks : tries[t] = 1

\* C4 (amended): a task is started only after every task it depends on,
\* directly or not, succeeded; it is attempted once, or twice when its first
\* attempt fails, and not at all when it ends skipped; once it has ended it
\* is not executed again in the run; and in a run that ends success every
\* task was executed to success.
C4_ExecutedInOrderAtMostTwice ==
    /\ [](\A t \in Tasks :
            /\ \A d \in C2_Below(t) : HasRun(d) => status[t] = "succeeded"
            /\ status[t] = "succeeded" => tries[t] \in {1, 2}
            /\ status[t] = "skipped" => tries[t] = 0
            /\ runState = "success" => status[t] = "succeeded")
    /\ [][\A t \in Tasks :
            (status[t] \in Terminal /\ run' = run)
               => (status'[t] = status[t] /\ tries'[t] = tries[t])]_vars

C4_Witness ==
    /\ runState = "success"
    /\ tries["ingest_ratings"] = 2
    /\ tries["ingest_movies"] = 1

\* C5: a run ends success only if every task succeeded, and then the
\* avg_ratings file is the complete aggregation; it ends failed whenever a
\* task ended failed, a cleanup task included; an attempt of the analysis
\* whose write of avg_ratings failed does not succeed.
C5_NoSuccessWithFailure ==
    /\ runState = "success" =>
          /\ \A t \in Tasks : status[t] = "succeeded"
          /\ avg_csv.state = "complete"
          /\ avg_csv.rows \in QueryResults(fact.rows)
    /\ (RunEnded /\ \E t \in Tasks : status[t] = "failed")
          => runState = "failed"
    /\ last_cause = "write" => status["perform_analysis"] # "succeeded"

C5_Witness ==
    /\ runState = "failed"
    /\ status["perform_analysis"] = "failed"
    /\ last_cause = "write"
    /\ avg_csv.state = "partial"

\* C6: a run that succeeds after a run that succeeded, on the same inputs,
\* leaves the same fact rows and the same aggregation; and whenever a loader
\* or the merge has succeeded, on a first attempt or on a retry, in any run,
\* its table holds exactly the rows computed from the inputs.
C6_RerunIdempotent ==
    /\ (prev.state = "success" /\ runState = "success") =>
          /\ fact = prev.fact
          /\ avg_csv.state = "complete" /\ prev.avg_csv.state = "complete"
          /\ Range(avg_csv.rows) = Range(prev.avg_csv.rows)
          /\ Len(avg_csv.rows) = Len(prev.avg_csv.rows)
    /\ (status["ingest_movies"] = "succeeded" /\ stg_movies.exists) =>
          stg_movies.rows = SeqToBag(MoviesFrame(movies_csv))
    /\ (status["ingest_ratings"] = "succeeded" /\ stg_ratings.exists) =>
          stg_ratings.rows = SeqToBag(RatingsFrame(ratings_csv))
    /\ status["merge_and_load_final"] = "succeeded" =>
          fact = Table(Merged(SeqToBag(MoviesFrame(movies_csv)),
                              SeqToBag(RatingsFrame(ratings_csv))))

C6_Witness ==
    /\ run = 2
    /\ prev.state = "success"
    /\ runState = "success"
    /\ tries["merge_and_load_final"] = 2
    /\ tries["ingest_movies"] = 2

C8_MissingColumnSkipsMerge ==
    /\ ~(MovieCols \subseteq movies_csv.cols) =>
          /\ status["ingest_movies"] # "succeeded"
          /\ RunEnded => status["ingest_movies"] = "failed"
    /\ ~(RatingCols \subseteq ratings_csv.cols) =>
          /\ status["ingest_ratings"] # "succeeded"
          /\ RunEnded => status["ingest_ratings"] = "failed"
    /\ ( \/ ~(MovieCols \subseteq movies_csv.cols)
         \/ ~(RatingCols \subseteq ratings_csv.cols) ) =>
          /\ ~HasRun("merge_and_load_final")
          /\ RunEnded => status["merge_and_load_final"] = "skipped"

C8_Witness ==
    /\ RunEnded
    /\ ~(RatingCols \subseteq ratings_csv.cols)
    /\ MovieCols \subseteq movies_csv.cols
    /\ status["ingest_movies"] = "succeeded"
    /\ status["merge_and_load_final"] = "skipped"

\* C9: when the merge has run and the join has no row, the validation never
\* succeeds, the analysis and the cleanups are never started, and the run
\* ends failed with the validation failed after both of its attempts.
C9_EmptyJoinFailsValidation ==
    ( /\ status["merge_and_load_final"] = "succeeded"
      /\ RowCount(fact.rows) = 0 ) =>
        /\ fact.exists
        /\ status["validate_rowcount"] # "succeeded"
        /\ \A t \in {"perform_analysis", "cleanup_stage_db", "cleanup_files"} :
              ~HasRun(t)
        /\ RunEnded =>
              /\ status["validate_rowcount"] = "failed"
              /\ tries["validate_rowcount"] = 2
              /\ runState = "failed"

C9_Witness ==
    /\ runState = "failed"
    /\ status["merge_and_load_final"] = "succeeded"
    /\ fact.exists
    /\ RowCount(fact.rows) = 0
    /\ status["validate_rowcount"] = "failed"

\* C10: an attempt of the analysis whose plot failed succeeds, with the
\* avg_ratings file written in full, and the run succeeds when the cleanups
\* do; an attempt whose aggregation was empty or whose write of avg_ratings
\* failed does not succeed.
C10_PlotFailureNotFatal ==
    /\ last_cause = "plot" =>
          /\ status["perform_analysis"] = "succeeded"
          /\ avg_csv.state = "complete"
          /\ avg_csv.rows \in QueryResults(fact.rows)
          /\ ( /\ RunEnded
               /\ status["cleanup_stage_db"] = "succeeded"
               /\ status["cleanup_files"] = "succeeded" )
             => runState = "success"
    /\ last_cause \in {"empty", "write"} =>
          status["perform_analysis"] \in {"up_for_retry", "running", "failed"}

C10_Witness ==
    /\ runState = "success"
    /\ last_cause = "plot"
    /\ top10_png = "absent"
    /\ avg_csv.state = "complete"

\* the rows the loaders and the merge write when they succeed on the inputs
FullMovies == Table(SeqToBag(MoviesFrame(movies_csv)))

FullRatings == Table(SeqToBag(RatingsFrame(ratings_csv)))

FullFact == Table(Merged(FullMovies.rows, FullRatings.rows))

\* C11: when a run has ended, no artifact and no table is left partially
\* written: avg_ratings.csv is absent or complete, and each table is absent or
\* holds all the rows of one write.
C11_NoPartialWrite ==
    RunEnded =>
        /\ avg_csv.state \in {"absent", "complete"}
        /\ stg_movies.exists => stg_movies = FullMovies
        /\ stg_ratings.exists => stg_ratings = FullRatings
        /\ fact.exists => fact = FullFact

\* C12: no table is ever visible half written, and each reader finds the
\* complete rows of the upstream write: the merge reads both staging tables
\* in full, the validation and the analysis read the fact table in full.
C12_ReadersSeeCompleteTables ==
    /\ stg_movies.exists => stg_movies = FullMovies
    /\ stg_ratings.exists => stg_ratings = FullRatings
    /\ fact.exists => fact = FullFact
    /\ status["merge_and_load_final"] = "running" =>
          stg_movies.exists /\ stg_ratings.exists
    /\ ( \/ status["validate_rowcount"] = "running"
         \/ status["perform_analysis"] = "running" ) => fact.exists

C12_Witness ==
    /\ run = 2
    /\ status["merge_and_load_final"] = "running"
    /\ tries["ingest_movies"] = 2
    /\ prev.fact.exists

\* C13: two tasks are running at the same time only when they are the two
\* loaders or the two cleanup tasks.
C13_OnlyTwoOverlaps ==
    \A t, u \in Tasks :
        (t # u /\ status[t] = "running" /\ status[u] = "running") =>
            \/ {t, u} = {"ingest_movies", "ingest_ratings"}
            \/ {t, u} = {"cleanup_stage_db", "cleanup_files"}

C13_Witness ==
    /\ status["ingest_movies"] = "running"
    /\ status["ingest_ratings"] = "running"
    /\ tries["ingest_movies"] = 2

\* C14: whenever cleanup_files has succeeded the scratch directory exists and
\* is empty, and DATA_DIR holds no file ending in .tmp.
C14_ScratchExistsAndEmpty ==
    status["cleanup_files"] = "succeeded" =>
        /\ tmp_dir.exists
        /\ tmp_dir.files = {}
        /\ \A f \in data_dir : f[2] # ".tmp"

\* C15: an attempt of the validation, first or retry, changes no table and no
\* file, and an attempt whose count query ran fails exactly when the fact
\* table holds no row.
C15_ValidationReadOnlyGate ==
    [][ ( /\ status["validate_rowcount"] = "running"
          /\ status'["validate_rowcount"] # "running" ) =>
            /\ dataVars' = dataVars
            /\ fact.exists
            /\ status'["validate_rowcount"] = "succeeded" =>
                  RowCount(fact.rows) > 0
            /\ ~faulted'["validate_rowcount"] =>
                  ( status'["validate_rowcount"] \in {"up_for_retry", "failed"}
                      <=> RowCount(fact.rows) = 0 ) ]_vars

C15_Witness ==
    /\ status["validate_rowcount"] = "failed"
    /\ tries["validate_rowcount"] = 2
    /\ ~faulted["validate_rowcount"]
    /\ fact.exists
    /\ RowCount(fact.rows) = 0
    /\ stg_movies.exists
    /\ run = 2

\* C16: a call of cleanup_intermediate that no store error ends succeeds
\* whether the staging tables exist or not and leaves both absent; it never
\* changes the fact table or a file; called again after it succeeded it
\* changes nothing.
C16_DropIdempotent ==
    [][ ( /\ status["cleanup_stage_db"] = "running"
          /\ status'["cleanup_stage_db"] # "running" ) =>
            /\ fact' = fact
            /\ <<movies_csv, ratings_csv, avg_csv, top10_png, tmp_dir,
                 data_dir>>' =
               <<movies_csv, ratings_csv, avg_csv, top10_png, tmp_dir,
                 data_dir>>
            /\ ~faulted'["cleanup_stage_db"] =>
                  /\ status'["cleanup_stage_db"] = "succeeded"
                  /\ stg_movies' = NoTable
                  /\ stg_ratings' = NoTable
            /\ ( /\ ~faulted'["cleanup_stage_db"]
                 /\ ~stg_movies.exists
                 /\ ~stg_ratings.exists ) => dataVars' = dataVars ]_vars

C16_Witness ==
    /\ status["cleanup_stage_db"] = "succeeded"
    /\ loaded_in = [stg_movies |-> 0, stg_ratings |-> 0]
    /\ ~stg_movies.exists
    /\ ~stg_ratings.exists
    /\ fact.exists
    /\ RowCount(fact.rows) > 0

\* C17: after the merge succeeded the fact table holds, whatever the order of
\* the staging rows, one row per pair of a rating and a movie with the same
\* movie_id, with rating2 the square of the rating, and nothing else; for the
\* movie (1, A, 2000) rated 4 and 2 these are rating2 16 and 4, and the
\* analysis writes (A, 3.00, 2).
C17_MergeIsInnerJoin ==
    status["merge_and_load_final"] = "succeeded" =>
        LET M == SeqToBag(MoviesFrame(movies_csv))
            R == SeqToBag(RatingsFrame(ratings_csv))
            Row(r, m) == [movie_id |-> r.movie_id, rating |-> r.rating,
                          rating2 |-> r.rating * r.rating,
                          title |-> m.title, year |-> m.year]
        IN  /\ fact.exists
            /\ \A r \in DOMAIN R : \A m \in DOMAIN M :
                  r.movie_id = m.movie_id =>
                      CopiesIn(Row(r, m), fact.rows) = R[r] * M[m]
            /\ \A x \in DOMAIN fact.rows :
                  \E r \in DOMAIN R : \E m \in DOMAIN M :
                      r.movie_id = m.movie_id /\ x = Row(r, m)
            /\ (movies_csv = MoviesOne /\ ratings_csv = RatingsOneMovie) =>
                  /\ fact.rows =
                        SeqToBag(<<
                          [movie_id |-> 1, rating |-> 4, rating2 |-> 16,
                           title |-> <<"A">>, year |-> 2000],
                          [movie_id |-> 1, rating |-> 2, rating2 |-> 4,
                           title |-> <<"A">>, year |-> 2000] >>)
                  /\ status["perform_analysis"] = "succeeded" =>
                        avg_csv =
                          CsvFile(<<[title |-> <<"A">>, avg_rating |-> 300,
                                     n |-> 2]>>)

C17_Witness ==
    /\ status["merge_and_load_final"] = "succeeded"
    /\ status["perform_analysis"] = "succeeded"
    /\ movies_csv = MoviesOne
    /\ ratings_csv = RatingsOneMovie
    /\ avg_csv.state = "complete"
    /\ RowCount(fact.rows) = 2

\* C18: under fair scheduling every run that is running ends, with each of
\* the seven task instances succeeded, failed or skipped and none pending or
\* running.
C18_EveryRunTerminates ==
    (runState = "running") ~>
        (RunEnded /\ \A t \in Tasks : status[t] \in Terminal)

C18_Witness ==
    /\ run = 2
    /\ runState = "failed"
    /\ status["ingest_ratings"] = "failed"
    /\ tries["ingest_ratings"] = Retries + 1
    /\ \A t \in Tasks : status[t] \in Terminal
    /\ status["cleanup_files"] = "skipped"

\* C19: cleanup_stage_db is executed only in a run whose analysis succeeded;
\* a run in which both loaders succeeded and the merge, the validation or the
\* analysis ended failed ends with both staging tables present and complete,
\* and with the fact table as the merge last wrote it: this run's join
\* (possibly empty) when the merge succeeded, else what the run found.
C19_StagingKeptOnFailure ==
    /\ HasRun("cleanup_stage_db") =>
          status["perform_analysis"] = "succeeded"
    /\ ( /\ RunEnded
         /\ status["ingest_movies"] = "succeeded"
         /\ status["ingest_ratings"] = "succeeded"
         /\ \/ status["merge_and_load_final"] = "failed"
            \/ status["validate_rowcount"] = "failed"
            \/ status["perform_analysis"] = "failed" ) =>
          /\ ~HasRun("cleanup_stage_db")
          /\ stg_movies = Table(SeqToBag(MoviesFrame(movies_csv)))
          /\ stg_ratings = Table(SeqToBag(RatingsFrame(ratings_csv)))
          /\ fact = IF status["merge_and_load_final"] = "failed"
                    THEN prev.fact
                    ELSE Table(Merged(stg_movies.rows, stg_ratings.rows))

C19_Witness ==
    /\ RunEnded
    /\ status["ingest_movies"] = "succeeded"
    /\ status["ingest_ratings"] = "succeeded"
    /\ status["validate_rowcount"] = "failed"
    /\ stg_movies.exists
    /\ stg_ratings.exists
    /\ fact.exists
    /\ RowCount(fact.rows) = 0

\* C20: within a run the analysis is executed only on a fact table with rows,
\* so its aggregation is never empty; and the merge is executed only with
\* both staging tables present and written by the loaders of the same run.
C20_NoEmptyOrStaleRead ==
    /\ HasRun("perform_analysis") =>
          fact.exists /\ RowCount(fact.rows) > 0
    /\ last_cause # "empty"
    /\ status["merge_and_load_final"] = "running" =>
          /\ stg_movies.exists
          /\ stg_ratings.exists
          /\ loaded_in.stg_movies = run
          /\ loaded_in.stg_ratings = run

C20_Witness ==
    /\ run = 2
    /\ prev.state = "failed"
    /\ prev.fact.exists
    /\ status["merge_and_load_final"] = "running"
    /\ tries["merge_and_load_final"] = 2
    /\ loaded_in = [stg_movies |-> 2, stg_ratings |-> 2]

=============================================================================
